---- MODULE Spec2Model ----
(***************************************************************************)
(* proxy_mock: the mock registry, the dispatch handler (catch_all) and the *)
(* request recorder of src/proxy_mock/any_catcher.py.                      *)
(*                                                                         *)
(* The handlers of any_catcher.py are the actions.  The helpers they call  *)
(* from proxy_mock.mock_service, proxy_mock.utils, proxy_mock.models and   *)
(* proxy_mock.constants are operators modelled after spec.md (sections 3   *)
(* and 4).  Paths are strings; their segment structure is given by         *)
(* Segments.  Python's None is the string None; a falsy timeout (None or   *)
(* 0) is 0.                                                                *)
(***************************************************************************)
EXTENDS Naturals, Sequences, FiniteSets, TLC

(* ------------------------------ bounds --------------------------------- *)

\* number of dispatch requests that may be in flight at once
NumReq == 2

\* the recorder buffer is unbounded in the code; the model stops recording here
MaxRecords == 2

(* ------------------------------ values --------------------------------- *)

None == "None"

\* marks a key that a record (a dict) does not have
Absent == "<absent>"

Reqs == 1..NumReq

\* normalized paths a mock can be registered at, and their segments
Paths == {"/a", "/a/b", "/a/c"}

\* paths of inbound requests that the route /<path:path> hands to catch_all
RequestPaths == Paths

\* the value of the query parameter path: not given, given empty, or a path
QueryParams == {Absent, "", "/a", "/a/b", "/x"}

Segments(p) ==
  CASE p = "/a" -> <<"a">>
    [] p = "/a/b" -> <<"a", "b">>
    [] p = "/a/c" -> <<"a", "c">>
    [] p = "/x" -> <<"x">>
    [] OTHER -> <<>>

\* p is q or an ancestor of q in the tree of path segments
IsPrefix(p, q) ==
  /\ Len(Segments(p)) <= Len(Segments(q))
  /\ SubSeq(Segments(q), 1, Len(Segments(p))) = Segments(p)

NoBody == [kind |-> "none", val |-> ""]
Text(v) == [kind |-> "text", val |-> v]
Bytes(v) == [kind |-> "bytes", val |-> v]

\* Python's str() of a body: the repr of bytes, the text itself, "None"
Str(body) ==
  CASE body.kind = "bytes" -> Text("b'" \o body.val \o "'")
    [] body.kind = "none" -> Text(None)
    [] OTHER -> body

\* Python truthiness of an optional string
Truthy(v) == v \notin {None, ""}

(* --------------------- mock-configuration payloads ---------------------- *)

Payload(path, proxy_host, timeout, body, status_code, headers, extra_info) ==
  [path |-> path, proxy_host |-> proxy_host, timeout |-> timeout, body |-> body,
   status_code |-> status_code, headers |-> headers, extra_info |-> extra_info]

\* what request.json of POST /configure_mock can be: JSON carries no bytes
JsonPayloads ==
  { Payload("/a", None, 0, Text("t1"), 200, "h1", "e1"),
    Payload("/a/", None, 1, NoBody, 204, "h2", None),
    Payload("/a/b", "http://up", 1, Text("t3"), 200, "h3", "e3"),
    Payload("", None, 0, Text("t1"), 200, "h1", None) }

\* what pickle.loads(request.data) of POST /configure_mock/binary can be
BinaryPayloads ==
  { Payload("/a/c", None, 0, Bytes("b1"), 200, "h5", "e5"),
    Payload("", None, 0, Bytes("b1"), 200, "h5", None) }

\* ConfigureMockRequestSchema.model_validate: the path must not be empty
Valid(payload) == payload.path # ""

\* normalization of a registered path: leading slash, no trailing slash
Normalize(path) ==
  CASE path = "/a/" -> "/a"
    [] OTHER -> path

\* the stored mock of a validated payload
EntryOf(payload) ==
  [path |-> Normalize(payload.path), proxy_host |-> payload.proxy_host,
   timeout |-> payload.timeout, body |-> payload.body,
   status_code |-> payload.status_code, headers |-> payload.headers,
   extra_info |-> payload.extra_info]

\* find_response's None
NoEntry ==
  [path |-> None, proxy_host |-> None, timeout |-> 0, body |-> NoBody,
   status_code |-> 0, headers |-> "", extra_info |-> None]

EmptyStorage == [p \in {} |-> NoEntry]

(* -------------------- proxy_mock.mock_service -------------------------- *)

\* create_response(**validate_data): insert or replace the entry at the path
create_response(st, payload) ==
  [p \in DOMAIN st \cup {Normalize(payload.path)} |->
     IF p = Normalize(payload.path) THEN EntryOf(payload) ELSE st[p]]

\* find_response(path): the entry registered exactly at path, or None
find_response(st, path) ==
  IF path \in DOMAIN st THEN st[path] ELSE NoEntry

\* delete_mock(path): whether an entry is registered at path
delete_mock_result(st, path) == path \in DOMAIN st

\* delete_mock(path): the registry without the entry at path
delete_mock(st, path) == [p \in DOMAIN st \ {path} |-> st[p]]

\* cleanup_storage(): the empty registry; it returns True
cleanup_storage(st) == EmptyStorage

\* path_finder(path): the node of the tree at path, None when there is none
path_finder(st, path) ==
  IF \E p \in DOMAIN st : IsPrefix(path, p) THEN path ELSE None

\* return_storage(): the tree, binary bodies rendered as text
return_storage(st) ==
  [p \in DOMAIN st |->
     IF st[p].body.kind = "bytes" THEN [st[p] EXCEPT !.body = Str(@)] ELSE st[p]]

\* data.get(path) on the tree: the subtree at the node path
subtree(data, node) ==
  [p \in {q \in DOMAIN data : IsPrefix(node, q)} |-> data[p]]

(* --------------------- proxy_mock.utils, constants ---------------------- *)

\* get_request_data: the parameters of the inbound request, no extra_info yet
get_request_data(path) == [path |-> path, extra_info |-> Absent]

\* proxy_mock.constants.MOCK_PARAMS_STORAGE as imported: an empty list
MOCK_PARAMS_STORAGE == << >>

\* what proxy_request_to_host can return from the upstream
UpstreamResponses ==
  { [status_code |-> 200, content |-> Bytes("u1"), headers |-> "uh1"],
    [status_code |-> 503, content |-> Bytes("u2"), headers |-> "uh2"] }

(* ------------------------------ state ---------------------------------- *)

VARIABLES
  storage,         \* the registry of mock_service: path -> entry
  heap,            \* contents of the two list objects: the constant and the app's copy
  params_storage,  \* app.params_storage: which list object it refers to
  pc,              \* per dispatch request: idle, proxying or sleeping
  mock_data,       \* per dispatch request: the local mock_data of catch_all
  ctl,             \* position of a cleanup_params call: idle or assigned
  resp             \* the response sent last

vars == <<storage, heap, params_storage, pc, mock_data, ctl, resp>>

\* the list app.params_storage refers to
Buffer == heap[params_storage]

\* copy.deepcopy(obj): a new object with the contents of obj
deepcopy(h, obj) == [h EXCEPT !.copy = h[obj]]

NoResp ==
  [op |-> "none", slot |-> 0, arg |-> Absent, status |-> 0, success |-> FALSE,
   null |-> FALSE, tree |-> EmptyStorage, buf |-> << >>, body |-> NoBody,
   headers |-> "", ctype |-> "", outcome |-> None]

\* Mock.__init__
Init ==
  /\ storage = EmptyStorage
  /\ heap = deepcopy([const |-> MOCK_PARAMS_STORAGE, copy |-> << >>], "const")
  /\ params_storage = "copy"
  /\ pc = [r \in Reqs |-> "idle"]
  /\ mock_data = [r \in Reqs |-> NoEntry]
  /\ ctl = "idle"
  /\ resp = NoResp

\* a bug: app.run(host="0.0.0.0", threaded=False), one request at a time
SingleThreaded == FALSE

\* app.run(host="0.0.0.0"): Flask serves each request in a thread of its own
Threaded == TRUE

\* the server takes a new request
Accepts == Threaded \/ (ctl = "idle" /\ \A r \in Reqs : pc[r] = "idle")

\* a bug: app.params_storage = [request_data]
append_assigns(h, ref, request_data) == [h EXCEPT ![ref] = <<request_data>>]

\* a bug: a lost update, the new record takes the place of the last one
append_lost_update(h, ref, request_data) ==
  [h EXCEPT ![ref] = IF Len(@) = 0 THEN <<request_data>>
                                   ELSE [@ EXCEPT ![Len(@)] = request_data]]

\* app.params_storage.append(request_data)
append(h, ref, request_data) == [h EXCEPT ![ref] = Append(@, request_data)]

(* ----------------------------- handlers -------------------------------- *)

\* a bug: the control call is recorded like a dispatched request
status_recorded ==
  /\ Accepts
  /\ Len(Buffer) < MaxRecords
  /\ heap' = append(heap, params_storage, get_request_data("/status"))
  /\ resp' = [NoResp EXCEPT !.op = "status", !.status = 200, !.success = TRUE]
  /\ UNCHANGED <<storage, params_storage, pc, mock_data, ctl>>

\* GET /status
status ==
  /\ Accepts
  /\ resp' = [NoResp EXCEPT !.op = "status", !.status = 200, !.success = TRUE]
  /\ UNCHANGED <<storage, heap, params_storage, pc, mock_data, ctl>>

\* a bug: a field the new payload leaves empty keeps the value registered before
configure_store_merge(st, payload) ==
  LET path == Normalize(payload.path)
      new == create_response(st, payload)
  IN IF path \in DOMAIN st /\ payload.extra_info = None
       THEN [new EXCEPT ![path].extra_info = st[path].extra_info]
       ELSE new

\* the registry after configure_mock, configure_mock/binary stored a valid payload
configure_store(st, payload) == create_response(st, payload)

\* a bug: the payload is stored before it is validated
configure_mock_stores_first(payload) ==
  /\ Accepts
  /\ storage' = configure_store(storage, payload)
  /\ IF ~Valid(payload)
       THEN resp' = [NoResp EXCEPT !.op = "configure_mock", !.arg = payload.path,
                                   !.status = 400]
       ELSE resp' = [NoResp EXCEPT !.op = "configure_mock", !.arg = payload.path,
                                   !.status = 201, !.success = TRUE,
                                   !.tree = (Normalize(payload.path) :>
                                               storage'[Normalize(payload.path)])]
  /\ UNCHANGED <<heap, params_storage, pc, mock_data, ctl>>

\* POST /configure_mock
configure_mock(payload) ==
  /\ Accepts
  /\ IF ~Valid(payload)
       THEN /\ resp' = [NoResp EXCEPT !.op = "configure_mock", !.arg = payload.path,
                                      !.status = 400]
            /\ UNCHANGED storage
       ELSE /\ storage' = configure_store(storage, payload)
            /\ resp' = [NoResp EXCEPT !.op = "configure_mock", !.arg = payload.path,
                                      !.status = 201, !.success = TRUE,
                                      !.tree = (Normalize(payload.path) :>
                                                  storage'[Normalize(payload.path)])]
  /\ UNCHANGED <<heap, params_storage, pc, mock_data, ctl>>

\* POST /configure_mock/binary: request.data unpickles to payload, or not at all
configure_binary_mock(unpickles, payload) ==
  /\ Accepts
  /\ IF ~unpickles
       THEN /\ resp' = [NoResp EXCEPT !.op = "configure_mock/binary", !.status = 500]
            /\ UNCHANGED storage
       ELSE IF ~Valid(payload)
         THEN /\ resp' = [NoResp EXCEPT !.op = "configure_mock/binary",
                                        !.arg = payload.path, !.status = 400]
              /\ UNCHANGED storage
         ELSE /\ storage' = configure_store(storage, payload)
              /\ resp' = [NoResp EXCEPT !.op = "configure_mock/binary",
                                        !.arg = payload.path,
                                        !.status = 201, !.success = TRUE,
                                        !.tree = (Normalize(payload.path) :>
                                           [storage'[Normalize(payload.path)]
                                              EXCEPT !.body = Str(@)])]
  /\ UNCHANGED <<heap, params_storage, pc, mock_data, ctl>>

\* a bug: dispatch looks the path up as storage introspection does, by prefix
catch_all_lookup_prefix(st, path) ==
  IF Truthy(path_finder(st, path))
    THEN st[CHOOSE p \in DOMAIN st : IsPrefix(path, p)]
    ELSE NoEntry

\* catch_all, line 108: the mock of the request path
catch_all_lookup(st, path) == find_response(st, path)

\* a bug: the record is appended as get_request_data built it
catch_all_record_plain(request_data, md) == request_data

\* catch_all, lines 110-118: the record appended for the request
catch_all_record(request_data, md) ==
  IF md = NoEntry THEN request_data
  ELSE [request_data EXCEPT !.extra_info = md.extra_info]

\* a bug: the timeout is looked at before the proxy host
catch_all_branch_timeout_first(md) ==
  IF md = NoEntry THEN "NoMatch"
  ELSE IF md.timeout > 0 THEN "MatchedLocal"
  ELSE IF Truthy(md.proxy_host) THEN "MatchedProxy"
  ELSE "MatchedLocal"

\* catch_all, lines 110 and 122: the branch taken
catch_all_branch(md) ==
  IF md = NoEntry THEN "NoMatch"
  ELSE IF Truthy(md.proxy_host) THEN "MatchedProxy"
  ELSE "MatchedLocal"

\* a bug: a binary body is returned like a textual one, content type not forced
local_response_as_text(r, md) ==
  [NoResp EXCEPT !.op = "catch_all", !.slot = r, !.arg = md.path,
                 !.status = md.status_code, !.headers = md.headers,
                 !.body = md.body, !.outcome = "MatchedLocal",
                 !.ctype = "default"]

\* catch_all, lines 139-151: the reply built from the mock itself
local_response(r, md) ==
  [NoResp EXCEPT !.op = "catch_all", !.slot = r, !.arg = md.path,
                 !.status = md.status_code, !.headers = md.headers,
                 !.body = md.body, !.outcome = "MatchedLocal",
                 !.ctype = IF md.body.kind = "bytes"
                             THEN "application/octet-stream" ELSE "default"]

\* a bug: only a miss is recorded before the reply; a hit is left for later
catch_all_records_miss_only(r, path) ==
  /\ Accepts
  /\ pc[r] = "idle"
  /\ Len(Buffer) < MaxRecords
  /\ LET md == catch_all_lookup(storage, path)
         branch == catch_all_branch(md)
     IN CASE branch = "NoMatch" ->
               /\ heap' = append(heap, params_storage, get_request_data(path))
               /\ UNCHANGED <<pc, mock_data>>
               /\ resp' = [NoResp EXCEPT !.op = "catch_all", !.slot = r,
                                         !.arg = path, !.status = 404,
                                         !.outcome = "NoMatch"]
          [] branch = "MatchedProxy" ->
               /\ pc' = [pc EXCEPT ![r] = "proxying"]
               /\ mock_data' = [mock_data EXCEPT ![r] = md]
               /\ UNCHANGED <<heap, resp>>
          [] branch = "MatchedLocal" /\ md.timeout > 0 ->
               /\ pc' = [pc EXCEPT ![r] = "sleeping"]
               /\ mock_data' = [mock_data EXCEPT ![r] = md]
               /\ UNCHANGED <<heap, resp>>
          [] OTHER ->
               /\ heap' = append(heap, params_storage,
                                 catch_all_record(get_request_data(path), md))
               /\ UNCHANGED <<pc, mock_data>>
               /\ resp' = local_response(r, md)
  /\ UNCHANGED <<storage, params_storage, ctl>>

\* ANY /<path>: find the mock, record the request, then reply, proxy or sleep
catch_all(r, path) ==
  /\ Accepts
  /\ pc[r] = "idle"
  /\ Len(Buffer) < MaxRecords
  /\ LET md == catch_all_lookup(storage, path)
         branch == catch_all_branch(md)
     IN /\ heap' = append(heap, params_storage,
                          catch_all_record(get_request_data(path), md))
        /\ CASE branch = "NoMatch" ->
                  /\ UNCHANGED <<pc, mock_data>>
                  /\ resp' = [NoResp EXCEPT !.op = "catch_all", !.slot = r,
                                            !.arg = path, !.status = 404,
                                            !.outcome = "NoMatch"]
             [] branch = "MatchedProxy" ->
                  /\ pc' = [pc EXCEPT ![r] = "proxying"]
                  /\ mock_data' = [mock_data EXCEPT ![r] = md]
                  /\ UNCHANGED resp
             [] branch = "MatchedLocal" /\ md.timeout > 0 ->
                  /\ pc' = [pc EXCEPT ![r] = "sleeping"]
                  /\ mock_data' = [mock_data EXCEPT ![r] = md]
                  /\ UNCHANGED resp
             [] OTHER ->
                  /\ UNCHANGED <<pc, mock_data>>
                  /\ resp' = local_response(r, md)
  /\ UNCHANGED <<storage, params_storage, ctl>>

\* a bug: the reply to a proxied request is built from the mock itself
proxy_returns_mock_reply(r, up) ==
  /\ pc[r] = "proxying"
  /\ pc' = [pc EXCEPT ![r] = "idle"]
  /\ mock_data' = [mock_data EXCEPT ![r] = NoEntry]
  /\ resp' = [local_response(r, mock_data[r]) EXCEPT !.outcome = "MatchedProxy"]
  /\ UNCHANGED <<storage, heap, params_storage, ctl>>

\* catch_all, lines 124-131: the upstream answered
proxy_returns(r, up) ==
  /\ pc[r] = "proxying"
  /\ pc' = [pc EXCEPT ![r] = "idle"]
  /\ mock_data' = [mock_data EXCEPT ![r] = NoEntry]
  /\ resp' = [NoResp EXCEPT !.op = "catch_all", !.slot = r,
                            !.arg = mock_data[r].path,
                            !.status = up.status_code, !.headers = up.headers,
                            !.body = up.content, !.ctype = "upstream",
                            !.outcome = "MatchedProxy"]
  /\ UNCHANGED <<storage, heap, params_storage, ctl>>

\* catch_all, line 124: proxy_request_to_host raised, Flask answers 500
proxy_raises(r) ==
  /\ pc[r] = "proxying"
  /\ pc' = [pc EXCEPT ![r] = "idle"]
  /\ mock_data' = [mock_data EXCEPT ![r] = NoEntry]
  /\ resp' = [NoResp EXCEPT !.op = "catch_all", !.slot = r,
                            !.arg = mock_data[r].path, !.status = 500,
                            !.outcome = "MatchedProxy"]
  /\ UNCHANGED <<storage, heap, params_storage, ctl>>

\* catch_all, lines 137-151: time.sleep returned
\* a bug: a mock is served once, the delayed reply takes it out of the registry
sleep_returns_consumes(r) ==
  /\ pc[r] = "sleeping"
  /\ pc' = [pc EXCEPT ![r] = "idle"]
  /\ mock_data' = [mock_data EXCEPT ![r] = NoEntry]
  /\ resp' = local_response(r, mock_data[r])
  /\ storage' = delete_mock(storage, mock_data[r].path)
  /\ UNCHANGED <<heap, params_storage, ctl>>

sleep_returns(r) ==
  /\ pc[r] = "sleeping"
  /\ pc' = [pc EXCEPT ![r] = "idle"]
  /\ mock_data' = [mock_data EXCEPT ![r] = NoEntry]
  /\ resp' = local_response(r, mock_data[r])
  /\ UNCHANGED <<storage, heap, params_storage, ctl>>

\* the 404 error handler: a request no route matches, the root path
catch_unknown_path ==
  /\ Accepts
  /\ Len(Buffer) < MaxRecords
  /\ heap' = append(heap, params_storage, get_request_data("/"))
  /\ resp' = [NoResp EXCEPT !.op = "catch_unknown_path", !.arg = "/", !.status = 404]
  /\ UNCHANGED <<storage, params_storage, pc, mock_data, ctl>>

\* a bug: app.params_storage = MOCK_PARAMS_STORAGE, the list object itself
clear_params_alias ==
  /\ Accepts
  /\ ctl = "idle"
  /\ params_storage' = "const"
  /\ ctl' = "assigned"
  /\ UNCHANGED <<storage, heap, pc, mock_data, resp>>

\* POST /cleanup_params, line 158: app.params_storage = copy.deepcopy(...)
clear_params_assign ==
  /\ Accepts
  /\ ctl = "idle"
  /\ heap' = deepcopy(heap, "const")
  /\ params_storage' = "copy"
  /\ ctl' = "assigned"
  /\ UNCHANGED <<storage, pc, mock_data, resp>>

\* POST /cleanup_params, lines 160-162: the response reads app.params_storage
clear_params_respond ==
  /\ ctl = "assigned"
  /\ ctl' = "idle"
  /\ resp' = [NoResp EXCEPT !.op = "cleanup_params", !.status = 200,
                            !.success = TRUE, !.buf = Buffer]
  /\ UNCHANGED <<storage, heap, params_storage, pc, mock_data>>

\* a bug: the test of path is inverted
clear_storage_registry_inverted(st, path) ==
  IF ~(Truthy(path) /\ path # Absent) THEN delete_mock(st, path) ELSE cleanup_storage(st)

\* a bug: a delete by path also removes what is registered below the path
clear_storage_registry_subtree(st, path) ==
  IF Truthy(path) /\ path # Absent
    THEN [p \in {q \in DOMAIN st : ~IsPrefix(path, q)} |-> st[p]]
    ELSE cleanup_storage(st)

\* clear_storage, lines 173-176: the registry after the call
clear_storage_registry(st, path) ==
  IF Truthy(path) /\ path # Absent THEN delete_mock(st, path) ELSE cleanup_storage(st)

\* clear_storage, line 176: result
clear_storage_result(st, path) ==
  IF Truthy(path) /\ path # Absent THEN delete_mock_result(st, path) ELSE TRUE

\* POST /cleanup_storage[?path=...]
clear_storage(path) ==
  /\ Accepts
  /\ storage' = clear_storage_registry(storage, path)
  /\ resp' = [NoResp EXCEPT !.op = "cleanup_storage", !.arg = path, !.status = 200,
                            !.success = clear_storage_result(storage, path),
                            !.tree = return_storage(storage')]
  /\ UNCHANGED <<heap, params_storage, pc, mock_data, ctl>>

\* get_storage, lines 193-198: whether data is None
get_storage_null(st, path) ==
  Truthy(path) /\ path # Absent /\ ~Truthy(path_finder(st, path))

\* a bug: the path is looked up exactly, as dispatch does
get_storage_data_exact(st, path) ==
  IF Truthy(path) /\ path # Absent
    THEN [p \in DOMAIN st \cap {path} |-> return_storage(st)[p]]
    ELSE return_storage(st)

\* a bug: the registry itself is returned, binary bodies as they are stored
get_storage_data_raw(st, path) ==
  IF Truthy(path) /\ path # Absent
    THEN IF Truthy(path_finder(st, path))
           THEN subtree(st, path_finder(st, path))
           ELSE EmptyStorage
    ELSE st

\* get_storage, lines 193-198: data when it is not None
get_storage_data(st, path) ==
  IF Truthy(path) /\ path # Absent
    THEN IF Truthy(path_finder(st, path))
           THEN subtree(return_storage(st), path_finder(st, path))
           ELSE EmptyStorage
    ELSE return_storage(st)

\* GET /storage[?path=...]
get_storage(path) ==
  /\ Accepts
  /\ resp' = [NoResp EXCEPT !.op = "storage", !.arg = path, !.status = 200,
                            !.success = TRUE,
                            !.null = get_storage_null(storage, path),
                            !.tree = get_storage_data(storage, path)]
  /\ UNCHANGED <<storage, heap, params_storage, pc, mock_data, ctl>>

\* GET /mock_params
get_mock_params ==
  /\ Accepts
  /\ resp' = [NoResp EXCEPT !.op = "mock_params", !.status = 200,
                            !.success = TRUE, !.buf = Buffer]
  /\ UNCHANGED <<storage, heap, params_storage, pc, mock_data, ctl>>

Next ==
  \/ status
  \/ \E payload \in JsonPayloads : configure_mock(payload)
  \/ \E unpickles \in BOOLEAN, payload \in BinaryPayloads :
       configure_binary_mock(unpickles, payload)
  \/ \E r \in Reqs, path \in RequestPaths : catch_all(r, path)
  \/ \E r \in Reqs, up \in UpstreamResponses : proxy_returns(r, up)
  \/ \E r \in Reqs : proxy_raises(r)
  \/ \E r \in Reqs : sleep_returns(r)
  \/ catch_unknown_path
  \/ clear_params_assign
  \/ clear_params_respond
  \/ \E path \in QueryParams : clear_storage(path)
  \/ \E path \in QueryParams : get_storage(path)
  \/ get_mock_params

Spec == Init /\ [][Next]_vars

\* the server while nobody posts to /cleanup_params
NextNoReset ==
  \/ status
  \/ \E payload \in JsonPayloads : configure_mock(payload)
  \/ \E unpickles \in BOOLEAN, payload \in BinaryPayloads :
       configure_binary_mock(unpickles, payload)
  \/ \E r \in Reqs, path \in RequestPaths : catch_all(r, path)
  \/ \E r \in Reqs, up \in UpstreamResponses : proxy_returns(r, up)
  \/ \E r \in Reqs : proxy_raises(r)
  \/ \E r \in Reqs : sleep_returns(r)
  \/ catch_unknown_path
  \/ \E path \in QueryParams : clear_storage(path)
  \/ \E path \in QueryParams : get_storage(path)
  \/ get_mock_params

SpecNoReset == Init /\ [][NextNoReset]_vars

(* ------------------------------ claims --------------------------------- *)

\* a step of a request that is past its record: the upstream answers or the sleep ends
AfterRecord ==
  \E r \in Reqs :
    \/ \E up \in UpstreamResponses : proxy_returns(r, up)
    \/ proxy_raises(r)
    \/ sleep_returns(r)

\* C1: every request handled by catch_all (hit or miss) or by the 404 handler
\* appends exactly one record at the end of the recorder buffer and leaves the
\* records before it as they were, in order; the later steps of the same
\* request (the upstream's answer, the end of the sleep) append nothing more.
C1_OneRecordPerRequest ==
  [][ /\ \A r \in Reqs, path \in RequestPaths :
           catch_all(r, path) =>
             /\ Len(Buffer') = Len(Buffer) + 1
             /\ SubSeq(Buffer', 1, Len(Buffer)) = Buffer
             /\ Buffer'[Len(Buffer')].path = path
      /\ catch_unknown_path =>
           /\ Len(Buffer') = Len(Buffer) + 1
           /\ SubSeq(Buffer', 1, Len(Buffer)) = Buffer
           /\ Buffer'[Len(Buffer')].path = "/"
      /\ AfterRecord => Buffer' = Buffer ]_vars

\* a miss and then a hit are both in the buffer, in that order
C1_Witness ==
  /\ Len(Buffer) = 2
  /\ Buffer[1].extra_info = Absent
  /\ Buffer[2].extra_info = "e1"
  /\ resp.op = "catch_all"

\* C2: the assignment of cleanup_params leaves the recorder buffer equal to the
\* placeholder the server started with, whatever was recorded before, and no
\* record is ever appended to the placeholder object itself.
C2_ResetRestoresPlaceholder ==
  /\ [](heap.const = MOCK_PARAMS_STORAGE)
  /\ [][clear_params_assign => Buffer' = MOCK_PARAMS_STORAGE]_vars

\* a reset has run after a request was recorded and answered
C2_Witness ==
  /\ ctl = "assigned"
  /\ Buffer = MOCK_PARAMS_STORAGE
  /\ resp.op = "catch_all"

\* the keys of the registry that stand for the normalized path path
EntriesAt(st, path) == {k \in DOMAIN st : Normalize(k) = path}

\* C3: the registry holds at most one entry per normalized path, and a valid
\* registration leaves exactly one entry at its path, equal to the payload in
\* every field, and every other entry as it was.
C3_OneEntryPerPath ==
  /\ [](\A path \in Paths : Cardinality(EntriesAt(storage, path)) <= 1)
  /\ [][ \A payload \in JsonPayloads \cup BinaryPayloads :
           ( /\ Valid(payload)
             /\ \/ configure_mock(payload)
                \/ configure_binary_mock(TRUE, payload) ) =>
             LET path == Normalize(payload.path) IN
               /\ EntriesAt(storage', path) = {path}
               /\ storage'[path].proxy_host = payload.proxy_host
               /\ storage'[path].timeout = payload.timeout
               /\ storage'[path].body = payload.body
               /\ storage'[path].status_code = payload.status_code
               /\ storage'[path].headers = payload.headers
               /\ storage'[path].extra_info = payload.extra_info
               /\ \A other \in DOMAIN storage \ {path} :
                    other \in DOMAIN storage' /\ storage'[other] = storage[other] ]_vars

\* /a was registered with extra_info e1 (a request matched it) and then again
C3_Witness ==
  /\ resp.op = "configure_mock"
  /\ resp.status = 201
  /\ EntriesAt(storage, "/a") = {"/a"}
  /\ storage["/a"].body = NoBody
  /\ \E i \in 1..Len(Buffer) : Buffer[i].path = "/a" /\ Buffer[i].extra_info = "e1"

\* C4: a request whose path has no entry of its own is answered 404 at once as
\* NoMatch, also when entries exist above or below its path.
C4_ExactMatchOnly ==
  [][ \A r \in Reqs, path \in RequestPaths :
        (catch_all(r, path) /\ path \notin DOMAIN storage) =>
          /\ resp'.op = "catch_all"
          /\ resp'.arg = path
          /\ resp'.status = 404
          /\ resp'.outcome = "NoMatch"
          /\ pc'[r] = "idle"
          /\ Buffer'[Len(Buffer')].extra_info = Absent ]_vars

\* only /a/b is registered and a request to /a was answered 404
C4_Witness ==
  /\ DOMAIN storage = {"/a/b"}
  /\ resp.op = "catch_all"
  /\ resp.arg = "/a"
  /\ resp.status = 404

\* path is a registered path, above one or below one
Related(st, path) ==
  \E p \in DOMAIN st : IsPrefix(path, p) \/ IsPrefix(p, path)

C6_DeleteOnlyThatPath ==
  [][ \A path \in QueryParams \ {Absent} :
        clear_storage(path) =>
          /\ storage' = [p \in DOMAIN storage \ {path} |-> storage[p]]
          /\ resp'.success = (path \in DOMAIN storage) ]_vars

\* a response that registered a mock
Registered(r) ==
  r.op \in {"configure_mock", "configure_mock/binary"} /\ r.status = 201

C8_BinaryRenderedAsText ==
  resp.op = "storage" =>
    \A p \in DOMAIN resp.tree :
      storage[p].body.kind = "bytes" =>
        /\ resp.tree[p].body.kind = "text"
        /\ resp.tree[p].body.val = "b'" \o storage[p].body.val \o "'"

\* the binary mock of /a/c was fetched through GET /storage
C8_Witness ==
  /\ resp.op = "storage"
  /\ "/a/c" \in DOMAIN resp.tree
  /\ storage["/a/c"].body = Bytes("b1")
  /\ resp.tree["/a/c"].body = Text("b'b1'")

\* C9: while a request sleeps in its timeout, a registration, a delete, a
\* clear and a storage read can each run to its end, and another request can
\* be looked up and recorded, all with the sleeping request still asleep.
C9_SleepBlocksNobodyElse ==
  \A r \in Reqs :
    pc[r] = "sleeping" =>
      /\ \A payload \in JsonPayloads :
           ENABLED (configure_mock(payload) /\ pc'[r] = "sleeping")
      /\ \A path \in QueryParams :
           /\ ENABLED (clear_storage(path) /\ pc'[r] = "sleeping")
           /\ ENABLED (get_storage(path) /\ pc'[r] = "sleeping")
      /\ \A s \in Reqs \ {r}, path \in RequestPaths :
           (pc[s] = "idle" /\ Len(Buffer) < MaxRecords) =>
             ENABLED (catch_all(s, path) /\ pc'[r] = "sleeping")

\* the mock a sleeping request matched was removed while it sleeps
C9_Witness ==
  /\ pc[1] = "sleeping"
  /\ mock_data[1].path = "/a"
  /\ "/a" \notin DOMAIN storage
  /\ resp.op = "cleanup_storage"

\* C10: the lookup of catch_all decides the outcome once: NoMatch, answered at
\* once, exactly when no entry is at the request path; MatchedProxy exactly
\* when the entry found has a proxy host; MatchedLocal otherwise.  A request
\* waiting on the upstream ends as MatchedProxy and a sleeping one as
\* MatchedLocal; a slot with no request in flight sends no further reply.
C10_OneTerminalOutcome ==
  /\ [](resp.op = "catch_all" =>
          resp.outcome \in {"NoMatch", "MatchedLocal", "MatchedProxy"})
  /\ [][ \A r \in Reqs, path \in RequestPaths :
           catch_all(r, path) =>
             LET found == path \in DOMAIN storage
                 proxied == found /\ Truthy(storage[path].proxy_host)
                 replied == pc'[r] = "idle" /\ resp'.slot = r
             IN /\ ~found <=> (replied /\ resp'.outcome = "NoMatch")
                /\ proxied <=> pc'[r] = "proxying"
                /\ (found /\ ~proxied) <=>
                     \/ pc'[r] = "sleeping"
                     \/ replied /\ resp'.outcome = "MatchedLocal" ]_vars
  /\ [][ \A r \in Reqs :
           /\ (pc[r] = "proxying" /\ pc'[r] # "proxying") =>
                /\ pc'[r] = "idle"
                /\ resp'.op = "catch_all" /\ resp'.slot = r
                /\ resp'.outcome = "MatchedProxy"
           /\ (pc[r] = "sleeping" /\ pc'[r] # "sleeping") =>
                /\ pc'[r] = "idle"
                /\ resp'.op = "catch_all" /\ resp'.slot = r
                /\ resp'.outcome = "MatchedLocal"
           /\ (pc[r] = "idle" /\ resp' # resp /\ resp'.slot = r) =>
                \E path \in RequestPaths : catch_all(r, path) ]_vars

\* one request was proxied and answered while another one sleeps
C10_Witness ==
  /\ resp.op = "catch_all"
  /\ resp.outcome = "MatchedProxy"
  /\ resp.status = 503
  /\ \E r \in Reqs : pc[r] = "sleeping"

\* C11: a request that matches an entry with a proxy host goes to the upstream
\* and never sleeps, whatever the entry's timeout; when the upstream answers,
\* the reply has the upstream's status, headers and body, not the entry's.
C11_ProxyTakesPrecedence ==
  /\ [](\A r \in Reqs : pc[r] = "sleeping" => ~Truthy(mock_data[r].proxy_host))
  /\ [][ \A r \in Reqs, path \in RequestPaths :
           ( /\ catch_all(r, path)
             /\ path \in DOMAIN storage
             /\ Truthy(storage[path].proxy_host) ) =>
             /\ pc'[r] = "proxying"
             /\ mock_data'[r] = storage[path]
             /\ resp' = resp ]_vars
  /\ [][ \A r \in Reqs, up \in UpstreamResponses :
           proxy_returns(r, up) =>
             /\ resp'.op = "catch_all" /\ resp'.slot = r
             /\ resp'.status = up.status_code
             /\ resp'.headers = up.headers
             /\ resp'.body = up.content
             /\ resp'.body # mock_data[r].body
             /\ pc'[r] = "idle" ]_vars

\* the mock of /a/b has a proxy host, a timeout and a body; the upstream's 200 came back
C11_Witness ==
  /\ resp.op = "catch_all"
  /\ resp.arg = "/a/b"
  /\ resp.outcome = "MatchedProxy"
  /\ resp.status = 200
  /\ resp.body = Bytes("u1")
  /\ "/a/b" \in DOMAIN storage
  /\ storage["/a/b"].timeout = 1
  /\ storage["/a/b"].body = Text("t3")

\* C12: configure_mock and configure_mock/binary answer a payload that fails
\* validation with 400 and success false and leave the registry and the
\* recorder as they were; a valid payload is answered 201 and is stored; after
\* a 400 the server takes the next configuration call.
C12_InvalidPayloadRejected ==
  /\ [][ \A payload \in JsonPayloads \cup BinaryPayloads :
           (configure_mock(payload) \/ configure_binary_mock(TRUE, payload)) =>
             IF Valid(payload)
               THEN /\ resp'.status = 201
                    /\ resp'.success
                    /\ Normalize(payload.path) \in DOMAIN storage'
               ELSE /\ resp'.status = 400
                    /\ ~resp'.success
                    /\ storage' = storage
                    /\ heap' = heap
                    /\ params_storage' = params_storage ]_vars
  /\ [](resp.status = 400 =>
          \A payload \in JsonPayloads : ENABLED configure_mock(payload))

\* an invalid binary payload was refused while a mock and a record exist
C12_Witness ==
  /\ resp.op = "configure_mock/binary"
  /\ resp.status = 400
  /\ ~resp.success
  /\ DOMAIN storage = {"/a"}
  /\ Len(Buffer) = 1

\* the reply rsp renders the mock md as catch_all's three body branches do
Rendered(md, rsp) ==
  /\ rsp.op = "catch_all"
  /\ rsp.status = md.status_code
  /\ rsp.headers = md.headers
  /\ CASE md.body.kind = "none" -> rsp.body = NoBody
       [] md.body.kind = "bytes" ->
            rsp.body = md.body /\ rsp.ctype = "application/octet-stream"
       [] OTHER -> rsp.body = md.body

\* C13: a matched request without proxy host is answered with the entry's
\* status code and headers and with its body: none for an absent body, the raw
\* bytes with content type application/octet-stream for a binary body, the text
\* itself for a textual body; this holds for a reply sent at once and for one
\* sent after the sleep, and a sleeping request can always be answered.
C13_LocalBodyRendering ==
  /\ [](\A r \in Reqs : pc[r] = "sleeping" => ENABLED sleep_returns(r))
  /\ [][ \A r \in Reqs :
           /\ \A path \in RequestPaths :
                ( /\ catch_all(r, path)
                  /\ path \in DOMAIN storage
                  /\ ~Truthy(storage[path].proxy_host)
                  /\ storage[path].timeout = 0 ) =>
                  (resp'.slot = r /\ Rendered(storage[path], resp'))
           /\ sleep_returns(r) =>
                (resp'.slot = r /\ Rendered(mock_data[r], resp')) ]_vars

\* the binary mock of /a/c was served
C13_Witness ==
  /\ resp.op = "catch_all"
  /\ resp.arg = "/a/c"
  /\ resp.body = Bytes("b1")
  /\ resp.ctype = "application/octet-stream"
  /\ resp.status = 200
  /\ resp.headers = "h5"

\* C14: the record catch_all appends has the request's path and, on a hit, the
\* extra_info of the entry registered at that path at the time; on a miss, and
\* in the 404 handler, the record has no extra_info.
C14_RecordCarriesMatchedExtraInfo ==
  [][ /\ \A r \in Reqs, path \in RequestPaths :
           catch_all(r, path) =>
             /\ Len(Buffer') > 0
             /\ Buffer'[Len(Buffer')].path = path
             /\ Buffer'[Len(Buffer')].extra_info =
                  IF path \in DOMAIN storage THEN storage[path].extra_info ELSE Absent
      /\ catch_unknown_path =>
           /\ Len(Buffer') > 0
           /\ Buffer'[Len(Buffer')] = [path |-> "/", extra_info |-> Absent] ]_vars

\* a hit on /a and a miss on /a/c were recorded while /a/b holds another extra_info
C14_Witness ==
  /\ Len(Buffer) = 2
  /\ Buffer[1] = [path |-> "/a", extra_info |-> "e1"]
  /\ Buffer[2] = [path |-> "/a/c", extra_info |-> Absent]
  /\ "/a/b" \in DOMAIN storage
  /\ storage["/a/b"].extra_info = "e3"

\* the record of the request that slot r has in flight
RecordOf(r) == [path |-> mock_data[r].path, extra_info |-> mock_data[r].extra_info]

\* C15 as stated: whenever a request waits on the upstream or sleeps, its
\* record is in the recorder buffer.
C15_RecordPresentWhileWaiting ==
  \A r \in Reqs :
    pc[r] \in {"proxying", "sleeping"} =>
      \E i \in 1..Len(Buffer) : Buffer[i] = RecordOf(r)

\* C15 amended: the step that sends a request to the upstream or to sleep has
\* appended its record, and no step other than the assignment of
\* cleanup_params removes or changes a record already in the buffer (so the
\* record is there while the request waits, and after the upstream failed,
\* unless the buffer was reset meanwhile).
C15_RecordedBeforeWaiting ==
  /\ [][ \A r \in Reqs :
           (pc[r] = "idle" /\ pc'[r] \in {"proxying", "sleeping"}) =>
             Buffer' = Append(Buffer, [path |-> mock_data'[r].path,
                                       extra_info |-> mock_data'[r].extra_info]) ]_vars
  /\ [][ ~clear_params_assign =>
           /\ Len(Buffer') >= Len(Buffer)
           /\ SubSeq(Buffer', 1, Len(Buffer)) = Buffer ]_vars

\* the upstream of the request to /a/b failed and its record is in the buffer,
\* while another request sleeps
C15_Witness ==
  /\ resp.op = "catch_all"
  /\ resp.arg = "/a/b"
  /\ resp.status = 500
  /\ Len(Buffer) = 2
  /\ Buffer[1] = [path |-> "/a/b", extra_info |-> "e3"]
  /\ \E r \in Reqs : pc[r] = "sleeping" /\ Buffer[2] = RecordOf(r)

\* a step that registers the valid payload at path p (the test of the reply
\* comes first: it follows from the handler and spares evaluating it)
Registers(p, payload) ==
  /\ resp'.status = 201
  /\ Valid(payload)
  /\ Normalize(payload.path) = p
  /\ configure_mock(payload) \/ configure_binary_mock(TRUE, payload)

\* a step of cleanup_storage that deletes by path p, or that clears the registry
Removes(p) ==
  /\ resp'.op = "cleanup_storage"
  /\ \E q \in QueryParams :
       /\ q = p \/ ~(Truthy(q) /\ q # Absent)
       /\ clear_storage(q)

\* the entry of p, or its absence, is not what it was
Changed(p) ==
  \/ (p \in DOMAIN storage') # (p \in DOMAIN storage)
  \/ p \in DOMAIN storage /\ p \in DOMAIN storage' /\ storage'[p] # storage[p]

Occurrences(buf, rec) == Cardinality({i \in 1..Len(buf) : buf[i] = rec})

\* the records a dispatch request may leave
Records ==
  {[path |-> p, extra_info |-> e] :
     p \in RequestPaths \cup {"/"}, e \in {Absent, None, "e1", "e3", "e5"}}

\* C17: while no reset runs, every dispatch request appends exactly one record
\* at the end of the buffer, its own, and no other step touches the buffer:
\* the records already there stay, in their order; the buffer holds a record
\* for each of the requests in flight at the same time.
C17_ConcurrentAppendsAllKept ==
  /\ [][ /\ \A r \in Reqs, p \in RequestPaths :
              (pc[r] = "idle" /\ catch_all(r, p)) =>
                /\ Len(Buffer') = Len(Buffer) + 1
                /\ SubSeq(Buffer', 1, Len(Buffer)) = Buffer
                /\ Buffer'[Len(Buffer')].path = p
         /\ catch_unknown_path =>
              Buffer' = Append(Buffer, [path |-> "/", extra_info |-> Absent])
         /\ Buffer' # Buffer =>
              \/ catch_unknown_path
              \/ \E r \in Reqs, p \in RequestPaths : catch_all(r, p) ]_vars
  /\ [](\A rec \in Records :
          Cardinality({r \in Reqs : pc[r] # "idle" /\ RecordOf(r) = rec})
            <= Occurrences(Buffer, rec))

\* two requests are in flight at the same time and the buffer holds both records
C17_Witness ==
  /\ pc[1] = "sleeping"
  /\ pc[2] = "proxying"
  /\ Len(Buffer) = 2
  /\ Buffer[1] = RecordOf(2)
  /\ Buffer[2] = RecordOf(1)
  /\ RecordOf(1) # RecordOf(2)

\* C18: the data in the response of cleanup_params is the empty buffer and the
\* status is 200, whatever was handled between the reset and the response.
C18_ResetResponseEmpty ==
  resp.op = "cleanup_params" => (resp.status = 200 /\ resp.buf = << >>)

\* a step of a dispatch request: catch_all up to its reply, proxy call or sleep,
\* the reply after the upstream or the sleep, and the 404 fallback
Dispatch ==
  \/ \E r \in Reqs, p \in RequestPaths : catch_all(r, p)
  \/ \E r \in Reqs, up \in UpstreamResponses : proxy_returns(r, up)
  \/ \E r \in Reqs : proxy_raises(r)
  \/ \E r \in Reqs : sleep_returns(r)
  \/ catch_unknown_path

\* C19: no step of a dispatch request, hit, miss, proxied, delayed or the 404
\* fallback, changes the registry: the same paths are registered with the same
\* entries; the entry whose extra_info went into the record is as it was.
C19_DispatchLeavesRegistry ==
  [][ Dispatch => storage' = storage ]_vars

\* /a was registered with extra_info e1, a request to /a was answered from it
\* and recorded with e1, and the entry is still the one registered
C19_Witness ==
  /\ resp.op = "catch_all"
  /\ resp.arg = "/a"
  /\ resp.outcome = "MatchedLocal"
  /\ "/a" \in DOMAIN storage
  /\ storage["/a"] = EntryOf(Payload("/a", None, 0, Text("t1"), 200, "h1", "e1"))
  /\ Len(Buffer) = 1
  /\ Buffer[1] = [path |-> "/a", extra_info |-> "e1"]

\* a step of a control endpoint other than cleanup_params
Control ==
  \/ status
  \/ \E payload \in JsonPayloads : configure_mock(payload)
  \/ \E unpickles \in BOOLEAN, payload \in BinaryPayloads :
       configure_binary_mock(unpickles, payload)
  \/ \E path \in QueryParams : clear_storage(path)
  \/ \E path \in QueryParams : get_storage(path)
  \/ get_mock_params

\* C20: status, configure_mock, configure_mock/binary, cleanup_storage, storage
\* and mock_params leave the recorder as it is, the list object and what it
\* holds; the buffer changes only in a dispatch step or in the reset of
\* cleanup_params.
C20_ControlLeavesRecorder ==
  /\ [][ Control => (heap' = heap /\ params_storage' = params_storage) ]_vars
  /\ [][ Buffer' # Buffer =>
           \/ clear_params_assign
           \/ catch_unknown_path
           \/ \E r \in Reqs, p \in RequestPaths : catch_all(r, p) ]_vars

\* control calls were made after two requests were recorded, and mock_params
\* returns exactly those two records
C20_Witness ==
  /\ resp.op = "mock_params"
  /\ resp.buf = Buffer
  /\ Len(Buffer) = 2
  /\ storage # EmptyStorage

====
